---- MODULE Spec2Model ----
(***************************************************************************)
(* LaunchPad suite reconciliation and build orchestration                  *)
(* (LaunchpadSidebarProvider: scanForSuite, compareVersions,               *)
(* runCompileAll, deleteVsix, runPackage; Publisher).                      *)
(*                                                                         *)
(* The filesystem, the installed-extension registry and the external       *)
(* build tools are the environment.  Every async method is cut at its      *)
(* awaits: between two steps of one method the steps of another handler    *)
(* (launched un-awaited by the message dispatcher) may run.                *)
(***************************************************************************)
EXTENDS Integers, Sequences, FiniteSets, TLC

(***************************************************************************)
(* Bounds and program constants                                            *)
(***************************************************************************)

\* Timestamps range over 0 and TOLERANCE .. TOLERANCE + MaxSkew.
MaxSkew == 1

\* The grace window of the artifact/installed-manifest comparison.
TOLERANCE == 5000

Projects == {"alpha", "beta", "gamma"}

\* findFiles order of the manifests (the inventory order).
Inventory == <<"alpha", "beta", "gamma">>

Times == {0} \cup (TOLERANCE .. (TOLERANCE + MaxSkew))

(***************************************************************************)
(* Filesystem stat results                                                 *)
(***************************************************************************)

Missing == [exists |-> FALSE, mtime |-> 0]

File(t) == [exists |-> TRUE, mtime |-> t]

FileStates == {Missing} \cup {File(t) : t \in Times}

(***************************************************************************)
(* Version strings: "", "unknown", or dot-separated tokens.  A token is    *)
(* a decimal numeral (num, with its value) or not a number at all.         *)
(***************************************************************************)

Tok(n) == [num |-> TRUE, val |-> n]

BadTok == [num |-> FALSE, val |-> 0]

EmptyVersion == [kind |-> "empty", parts |-> << >>]

UnknownVersion == [kind |-> "unknown", parts |-> <<BadTok>>]

Dotted(parts) == [kind |-> "dotted", parts |-> parts]

V(a, b, c) == Dotted(<<Tok(a), Tok(b), Tok(c)>>)

\* (p[i] || 0) after split('.').map(Number): undefined and NaN read as 0.
PartOrZeroMutOne(p, i) ==
    IF i > Len(p) THEN 0 ELSE IF p[i].num THEN p[i].val ELSE 1

PartOrZero(p, i) == IF i > Len(p) THEN 0 ELSE IF p[i].num THEN p[i].val ELSE 0

RECURSIVE CompareFromMutGeq(_, _, _)
CompareFromMutGeq(p1, p2, i) ==
    IF i > 3 THEN 0
    ELSE IF PartOrZero(p1, i) >= PartOrZero(p2, i) THEN 1
    ELSE IF PartOrZero(p1, i) < PartOrZero(p2, i) THEN -1
    ELSE CompareFromMutGeq(p1, p2, i + 1)

RECURSIVE CompareFromMutTwo(_, _, _)
CompareFromMutTwo(p1, p2, i) ==
    IF i > 2 THEN 0
    ELSE IF PartOrZero(p1, i) > PartOrZero(p2, i) THEN 1
    ELSE IF PartOrZero(p1, i) < PartOrZero(p2, i) THEN -1
    ELSE CompareFromMutTwo(p1, p2, i + 1)

RECURSIVE CompareFromMutCyclic(_, _, _)
CompareFromMutCyclic(p1, p2, i) ==
    IF i > 3 THEN 0
    ELSE IF PartOrZero(p1, i) = PartOrZero(p2, i)
         THEN CompareFromMutCyclic(p1, p2, i + 1)
    ELSE IF (PartOrZero(p1, i) - PartOrZero(p2, i)) % 3 = 1 THEN 1
    ELSE -1

RECURSIVE CompareFrom(_, _, _)
CompareFrom(p1, p2, i) ==
    IF i > 3 THEN 0
    ELSE IF PartOrZero(p1, i) > PartOrZero(p2, i) THEN 1
    ELSE IF PartOrZero(p1, i) < PartOrZero(p2, i) THEN -1
    ELSE CompareFrom(p1, p2, i + 1)

compareVersionsMutNoUnknown(v1, v2) ==
    IF v1.kind = "empty" \/ v2.kind = "empty"
    THEN 0
    ELSE CompareFrom(v1.parts, v2.parts, 1)

compareVersions(v1, v2) ==
    IF v1.kind = "empty" \/ v2.kind = "empty"
       \/ v1.kind = "unknown" \/ v2.kind = "unknown"
    THEN 0
    ELSE CompareFrom(v1.parts, v2.parts, 1)

ScanVersions == {V(1, 1, 0), V(1, 2, 0)}

(***************************************************************************)
(* State                                                                   *)
(***************************************************************************)

VARIABLES
    manifest,   \* per project: what readFile + JSON.parse of package.json gives
    vsix,       \* per project: stat of <name>-<version>.vsix
    src,        \* per project: stat of the src folder
    installed,  \* per project: the matching entry of vscode.extensions.all
    fsEvents,   \* number of artifact writes/unlinks by other handlers so far
    scan,       \* the scanForSuite called last: pc, loop index, locals, suite
    report,     \* what the webview last received as suiteStatus
    build,      \* the running runCompileAll: pc, plan, loop index, counters
    install,    \* the running installSuite: pc, list, loop index, counters
    cmp,        \* one evaluation of compareVersions: arguments and results
    scanLog,    \* every scanForSuite call: the state it started over, its report
    pack,       \* the running runPackage: pc, project, outcome
    art,        \* one derivation of artifact paths: descriptors and paths
    suspended,  \* the scanForSuite calls waiting at an await, not selected
    publish,    \* the running runPublish: pc, project, outcome
    del         \* the running deleteVsix: pc, artifact, outcome

vars == <<manifest, vsix, src, installed, fsEvents, scan, report, build,
          install, cmp, scanLog, pack, art, suspended, publish, del>>

\* Artifact writes/unlinks by other handlers that may fall inside one scan.
MaxFsEvents == 1

(***************************************************************************)
(* Manifests and the installed registry                                    *)
(***************************************************************************)

\* package.json that does not parse (readFile or JSON.parse throws).
BadManifest == [ok |-> FALSE, publisher |-> FALSE, compile |-> FALSE,
                version |-> EmptyVersion]

Manifest(pub, comp, ver) == [ok |-> TRUE, publisher |-> pub, compile |-> comp,
                             version |-> ver]

NotInstalled == [present |-> FALSE, version |-> EmptyVersion, pkg |-> Missing]

\* An installed extension: its version and the stat of its package.json.
Installed(ver, st) == [present |-> TRUE, version |-> ver, pkg |-> st]

InstalledStates ==
    {NotInstalled} \cup {Installed(v, st) : v \in ScanVersions, st \in FileStates}

(***************************************************************************)
(* scanForSuite: the decisions                                             *)
(***************************************************************************)

\* Inner try of the staleness check: the artifact exists (stats); a src
\* stat that throws leaves isStale false.
SrcNewerMut(stats, srcStats) == srcStats.exists /\ srcStats.mtime >= stats.mtime

SrcNewerMutNoSrc(stats, srcStats) ==
    ~srcStats.exists \/ srcStats.mtime > stats.mtime

SrcNewer(stats, srcStats) == srcStats.exists /\ srcStats.mtime > stats.mtime

\* The outer catch of the staleness check: the artifact stat threw.
StaleOnMissingArtifactMut == FALSE

StaleOnMissingArtifact == TRUE

\* isStale as the scan decides it from the two stat results.
IsStale(stats, srcStats) ==
    IF ~stats.exists THEN StaleOnMissingArtifact ELSE SrcNewer(stats, srcStats)

\* The status chain up to the second artifact stat: "recheck" stands for the
\* branch that awaits the two further stats.
FirstStatusMutOrder(inst, pkgVersion, isStale, vsixExists) ==
    IF inst.present
    THEN IF isStale THEN "stale"
         ELSE IF compareVersions(pkgVersion, inst.version) > 0 THEN "update"
         ELSE IF vsixExists THEN "recheck"
         ELSE "installed"
    ELSE IF vsixExists THEN "new" ELSE "stale"

FirstStatusMutNoStale(inst, pkgVersion, isStale, vsixExists) ==
    IF inst.present
    THEN IF compareVersions(pkgVersion, inst.version) > 0 THEN "update"
         ELSE IF vsixExists THEN "recheck"
         ELSE "installed"
    ELSE IF vsixExists THEN "new" ELSE "stale"

FirstStatusMutNew(inst, pkgVersion, isStale, vsixExists) ==
    IF inst.present
    THEN IF compareVersions(pkgVersion, inst.version) > 0 THEN "update"
         ELSE IF isStale THEN "stale"
         ELSE IF vsixExists THEN "recheck"
         ELSE "installed"
    ELSE IF isStale THEN "stale" ELSE "new"

FirstStatus(inst, pkgVersion, isStale, vsixExists) ==
    IF inst.present
    THEN IF compareVersions(pkgVersion, inst.version) > 0 THEN "update"
         ELSE IF isStale THEN "stale"
         ELSE IF vsixExists THEN "recheck"
         ELSE "installed"
    ELSE IF vsixExists THEN "new" ELSE "stale"

\* The artifact-versus-installed-manifest comparison; an installed manifest
\* whose stat throws gives 'installed'.
RecheckStatusMut(stats2, instStats) ==
    IF instStats.exists /\ stats2.mtime >= instStats.mtime + TOLERANCE
    THEN "update" ELSE "installed"

RecheckStatus(stats2, instStats) ==
    IF instStats.exists /\ stats2.mtime > instStats.mtime + TOLERANCE
    THEN "update" ELSE "installed"

(***************************************************************************)
(* scanForSuite: the steps (one per await)                                 *)
(***************************************************************************)

NoLocals == [stats |-> Missing, srcStats |-> Missing, stats2 |-> Missing,
             vsixExists |-> FALSE, isStale |-> FALSE]

IdleScan == [pc |-> "idle", i |-> 0, loc |-> NoLocals, suite |-> << >>,
             failed |-> {}, id |-> 0]

\* The project of the current loop iteration.
ScanProject == Inventory[scan.i]

\* suite.push: the report fields plus what the scan read to decide them.
Entry(p, status, loc, instStats) ==
    [name |-> p, status |-> status, version |-> manifest[p].version,
     hasInstalled |-> installed[p].present,
     installedVersion |-> installed[p].version,
     vsixExists |-> loc.vsixExists, isStale |-> loc.isStale,
     stats |-> loc.stats, srcStats |-> loc.srcStats,
     stats2 |-> loc.stats2, instStats |-> instStats]

\* Next loop iteration (also 'continue').
NextFile(suite) == [pc |-> "read", i |-> scan.i + 1, loc |-> NoLocals,
                    suite |-> suite, failed |-> scan.failed,
                    id |-> scan.id]

\* The outer catch: nothing is pushed for the project, the loop goes on.
Caught(suite) ==
    [NextFile(suite) EXCEPT !.failed = scan.failed \cup {ScanProject}]

\* A scan just called: findFiles done, suite = [].
LaunchedScanMutKeep == [pc |-> "read", i |-> 1, loc |-> NoLocals,
                        suite |-> scan.suite, failed |-> {},
                        id |-> Len(scanLog) + 1]

LaunchedScan == [pc |-> "read", i |-> 1, loc |-> NoLocals, suite |-> << >>,
                 failed |-> {}, id |-> Len(scanLog) + 1]

\* A scan called while another one waits at an await: both are in
\* progress, the one that was selected waits with the suspended ones.
Running(sc) == sc.pc \notin {"idle", "done"}

Parked == IF Running(scan) THEN suspended \cup {scan} ELSE suspended

\* The external state a scan runs over.
Env == [manifest |-> manifest, vsix |-> vsix, src |-> src,
        installed |-> installed]

\* The log with one more scan, called now over the state env and not yet
\* delivered.
LaunchedOver(env) ==
    Append(scanLog, [env |-> env, events |-> fsEvents, done |-> FALSE,
                     clean |-> FALSE, suite |-> << >>, seq |-> 0])

\* The same for a caller that leaves the external state as it is.
Launched == LaunchedOver(Env)

\* The reports posted so far.
NumDelivered == Cardinality({k \in 1..Len(scanLog) : scanLog[k].done})

\* The log with the selected scan delivered, as the seq-th report posted;
\* the scan is clean when no other handler changed an artifact while it
\* ran.
Delivered ==
    [scanLog EXCEPT ![scan.id] =
        [env |-> scanLog[scan.id].env,
         events |-> scanLog[scan.id].events,
         done |-> TRUE,
         clean |-> (fsEvents = scanLog[scan.id].events),
         suite |-> scan.suite,
         seq |-> NumDelivered + 1]]

\* Scans of one behaviour.
MaxScans == 3

\* getSuiteStatus message.
ScanStart ==
    /\ scan.pc = "idle"
    /\ scan' = LaunchedScan
    /\ scanLog' = Launched
    /\ suspended' = Parked
    /\ UNCHANGED <<manifest, vsix, src, installed, fsEvents, report, build,
                   install, cmp, pack, art,
                   publish, del>>

\* getSuiteStatus message after an earlier scan was delivered.
ScanAgain ==
    /\ scan.pc = "done"
    /\ Len(scanLog) < MaxScans
    /\ scan' = LaunchedScan
    /\ scanLog' = Launched
    /\ suspended' = Parked
    /\ UNCHANGED <<manifest, vsix, src, installed, fsEvents, report, build,
                   install, cmp, pack, art,
                   publish, del>>

\* getSuiteStatus message at any time: scanForSuite() is called without
\* waiting for the scans in progress.
GetSuiteStatus ==
    /\ Len(scanLog) < MaxScans
    /\ scan' = LaunchedScan
    /\ scanLog' = Launched
    /\ suspended' = Parked
    /\ UNCHANGED <<manifest, vsix, src, installed, fsEvents, report, build,
                   install, cmp, pack, art, publish, del>>

\* readFile + JSON.parse + publisher filter.
ScanReadMutAbort ==
    /\ scan.pc = "read"
    /\ scan.i <= Len(Inventory)
    /\ IF ~manifest[ScanProject].ok
       THEN scan' = [Caught(scan.suite) EXCEPT !.i = Len(Inventory) + 1]
       ELSE IF manifest[ScanProject].publisher
       THEN scan' = [scan EXCEPT !.pc = "statVsix"]
       ELSE scan' = NextFile(scan.suite)
    /\ UNCHANGED <<manifest, vsix, src, installed, fsEvents, report, build,
                   install, cmp, scanLog, pack, art,
                   suspended, publish, del>>

ScanRead ==
    /\ scan.pc = "read"
    /\ scan.i <= Len(Inventory)
    /\ IF ~manifest[ScanProject].ok
       THEN scan' = Caught(scan.suite)
       ELSE IF manifest[ScanProject].publisher
       THEN scan' = [scan EXCEPT !.pc = "statVsix"]
       ELSE scan' = NextFile(scan.suite)
    /\ UNCHANGED <<manifest, vsix, src, installed, fsEvents, report, build, install, cmp,
                   scanLog, pack, art,
                   suspended, publish, del>>

\* First stat of the artifact.
ScanStatVsix ==
    /\ scan.pc = "statVsix"
    /\ LET st == vsix[ScanProject] IN
       IF st.exists
       THEN scan' = [scan EXCEPT !.pc = "statSrc", !.loc.stats = st,
                                 !.loc.vsixExists = TRUE]
       ELSE scan' = [scan EXCEPT !.pc = "classify",
                                 !.loc.isStale = StaleOnMissingArtifact]
    /\ UNCHANGED <<manifest, vsix, src, installed, fsEvents, report, build, install, cmp,
                   scanLog, pack, art,
                   suspended, publish, del>>

\* Stat of the src folder.
ScanStatSrc ==
    /\ scan.pc = "statSrc"
    /\ LET st == src[ScanProject] IN
       scan' = [scan EXCEPT !.pc = "classify", !.loc.srcStats = st,
                            !.loc.isStale = SrcNewer(scan.loc.stats, st)]
    /\ UNCHANGED <<manifest, vsix, src, installed, fsEvents, report, build, install, cmp,
                   scanLog, pack, art,
                   suspended, publish, del>>

\* Installed lookup, compareVersions and the status chain.
ScanClassify ==
    /\ scan.pc = "classify"
    /\ LET p == ScanProject
           st == FirstStatus(installed[p], manifest[p].version,
                             scan.loc.isStale, scan.loc.vsixExists)
       IN IF st = "recheck"
          THEN scan' = [scan EXCEPT !.pc = "statVsix2"]
          ELSE scan' = NextFile(Append(scan.suite,
                                       Entry(p, st, scan.loc, Missing)))
    /\ UNCHANGED <<manifest, vsix, src, installed, fsEvents, report, build, install, cmp,
                   scanLog, pack, art,
                   suspended, publish, del>>

\* Second stat of the artifact; when it throws the outer catch drops the
\* project.
ScanStatVsix2 ==
    /\ scan.pc = "statVsix2"
    /\ LET st == vsix[ScanProject] IN
       IF st.exists
       THEN scan' = [scan EXCEPT !.pc = "statInst", !.loc.stats2 = st]
       ELSE scan' = Caught(scan.suite)
    /\ UNCHANGED <<manifest, vsix, src, installed, fsEvents, report, build, install, cmp,
                   scanLog, pack, art,
                   suspended, publish, del>>

\* Stat of the installed extension's package.json and the final status.
ScanStatInst ==
    /\ scan.pc = "statInst"
    /\ LET p == ScanProject
           instStats == installed[p].pkg
       IN scan' = NextFile(Append(scan.suite,
                     Entry(p, RecheckStatus(scan.loc.stats2, instStats),
                           scan.loc, instStats)))
    /\ UNCHANGED <<manifest, vsix, src, installed, fsEvents, report, build, install, cmp,
                   scanLog, pack, art,
                   suspended, publish, del>>

\* postMessage({type: 'suiteStatus', suite}).
ScanPost ==
    /\ scan.pc = "read"
    /\ scan.i > Len(Inventory)
    /\ report' = scan.suite
    /\ scan' = [scan EXCEPT !.pc = "done"]
    /\ scanLog' = Delivered
    /\ UNCHANGED <<manifest, vsix, src, installed, fsEvents, build, install,
                   cmp, pack, art,
                   suspended, publish, del>>

\* The event loop resumes another scanForSuite call at its await: the
\* promise it awaits settled first. A scan that has posted its report is
\* over.
Resume ==
    /\ \E s \in suspended :
          /\ scan' = s
          /\ suspended' = (suspended \ {s})
                           \cup (IF Running(scan) THEN {scan} ELSE {})
    /\ UNCHANGED <<manifest, vsix, src, installed, fsEvents, report, build,
                   install, cmp, scanLog, pack, art, publish, del>>

(***************************************************************************)
(* Timestamps of writes                                                    *)
(***************************************************************************)

\* Every timestamp the filesystem holds.
KnownTimes ==
    {vsix[p].mtime : p \in Projects} \cup {src[p].mtime : p \in Projects}
    \cup {installed[p].pkg.mtime : p \in Projects}

\* A write stamps the file with the current time: not before any timestamp
\* already on disk.
WriteTimes == {t \in Times : \A u \in KnownTimes : t >= u}

(***************************************************************************)
(* runCompileAll                                                           *)
(***************************************************************************)

\* The inner try of the smart check: the artifact exists (stats); only a
\* src folder strictly older than the artifact clears needsBuild.
NeedsBuildAfterSrc(stats, srcStats) ==
    ~(srcStats.exists /\ srcStats.mtime < stats.mtime)

\* needsBuild as the bulk build decides it from the two stat results.
NeedsBuild(stats, srcStats) ==
    IF ~stats.exists THEN TRUE ELSE NeedsBuildAfterSrc(stats, srcStats)

\* nexgenProjects: manifests that parse, have a publisher and a compile
\* script, in findFiles order.
PlannedMut(p) == manifest[p].ok /\ manifest[p].publisher

Planned(p) == manifest[p].ok /\ manifest[p].publisher /\ manifest[p].compile

Plan == SelectSeq(Inventory, Planned)

\* The record of one runCompileAll call; run numbers the calls of a
\* behaviour and earlier keeps the projects that succeeded in the calls
\* before this one (history only, the handler keeps nothing between calls).
IdleBuild == [pc |-> "idle", plan |-> << >>, i |-> 0, stats |-> Missing,
              successCount |-> 0, failedProjects |-> << >>,
              message |-> "none", checks |-> << >>, calls |-> << >>,
              returns |-> << >>, run |-> 1, earlier |-> {}]

BuildProject == build.plan[build.i]

\* End of one loop iteration: the next project, or the final message.
Advance(b) ==
    [b EXCEPT !.i = b.i + 1, !.stats = Missing,
              !.pc = IF b.i + 1 > Len(b.plan) THEN "report" ELSE "statVsix"]

\* if (!needsBuild) { successCount++; continue; }
SkippedMut(b) == Advance(b)

Skipped(b) == Advance([b EXCEPT !.successCount = b.successCount + 1])

\* Build then package returned: successCount++.
SucceededMut(b) == Advance(b)

Succeeded(b) == Advance([b EXCEPT !.successCount = b.successCount + 1])

\* catch: failedProjects.push(projectName).
FailedMut(b) ==
    [b EXCEPT !.failedProjects = Append(b.failedProjects, b.plan[b.i]),
              !.stats = Missing, !.i = Len(b.plan) + 1, !.pc = "report"]

Failed(b) ==
    Advance([b EXCEPT !.failedProjects = Append(b.failedProjects,
                                                  b.plan[b.i])])

\* A collaborator call of the run that resolved (ok) or threw.
Return(kind, p, ok) == [kind |-> kind, name |-> p, ok |-> ok]

\* What the smart check read and decided for one project.
Check(p, stats, srcStats, needs) ==
    [name |-> p, stats |-> stats, srcStats |-> srcStats, needsBuild |-> needs]

\* needsBuild is true: Publisher.runCompile is called.
StartCompileMut(b, p, stats, srcStats) ==
    [b EXCEPT !.pc = "compile",
              !.checks = Append(b.checks, Check(p, stats, srcStats, TRUE)),
              !.calls = b.calls \o << <<"compile", p>>, <<"package", p>> >>]

StartCompile(b, p, stats, srcStats) ==
    [b EXCEPT !.pc = "compile",
              !.checks = Append(b.checks, Check(p, stats, srcStats, TRUE)),
              !.calls = Append(b.calls, <<"compile", p>>)]

\* compileSuite message: the plan; an empty plan warns and returns.
CompileStartMut ==
    /\ build.pc = "idle"
    /\ IF Len(Plan) = 0
       THEN build' = [build EXCEPT !.pc = "report"]
       ELSE build' = [build EXCEPT !.pc = "statVsix", !.plan = Plan, !.i = 1]
    /\ UNCHANGED <<manifest, vsix, src, installed, fsEvents, scan, report, install, cmp,
                   scanLog, pack, art,
                   suspended, publish, del>>

CompileStart ==
    /\ build.pc = "idle"
    /\ IF Len(Plan) = 0
       THEN build' = [build EXCEPT !.pc = "done", !.message = "nothing"]
       ELSE build' = [build EXCEPT !.pc = "statVsix", !.plan = Plan, !.i = 1]
    /\ UNCHANGED <<manifest, vsix, src, installed, fsEvents, scan, report, install, cmp,
                   scanLog, pack, art,
                   suspended, publish, del>>

\* Bulk build runs of one behaviour.
MaxRuns == 2

\* The projects a finished run counted as succeeded: skipped, or compiled
\* and packaged.
SucceededIn(b) ==
    {b.checks[k].name : k \in {j \in 1..Len(b.checks) :
                                  ~b.checks[j].needsBuild}}
    \cup {b.returns[k].name : k \in {j \in 1..Len(b.returns) :
                                  /\ b.returns[j].kind = "package"
                                  /\ b.returns[j].ok}}

\* The record of the run after b.
NextRun(b) == [IdleBuild EXCEPT !.run = b.run + 1,
                               !.earlier = b.earlier \cup SucceededIn(b)]

\* compileSuite message after an earlier bulk build finished: the same
\* handler over the state the earlier run left.
CompileAgain ==
    /\ build.pc = "done"
    /\ build.run < MaxRuns
    /\ IF Len(Plan) = 0
       THEN build' = [NextRun(build) EXCEPT !.pc = "done",
                                            !.message = "nothing"]
       ELSE build' = [NextRun(build) EXCEPT !.pc = "statVsix",
                                            !.plan = Plan, !.i = 1]
    /\ UNCHANGED <<manifest, vsix, src, installed, fsEvents, scan, report,
                   install, cmp, scanLog, pack, art, suspended, publish, del>>

\* Smart check, stat of the artifact; a stat that throws leaves needsBuild
\* true.
BuildStatVsix ==
    /\ build.pc = "statVsix"
    /\ LET st == vsix[BuildProject] IN
       IF st.exists
       THEN build' = [build EXCEPT !.pc = "statSrc", !.stats = st]
       ELSE build' = StartCompile(build, BuildProject, st, Missing)
    /\ UNCHANGED <<manifest, vsix, src, installed, fsEvents, scan, report, install, cmp,
                   scanLog, pack, art,
                   suspended, publish, del>>

\* Smart check, stat of the src folder, then skip or build.
BuildStatSrc ==
    /\ build.pc = "statSrc"
    /\ LET p == BuildProject
           st == src[p]
       IN IF NeedsBuildAfterSrc(build.stats, st)
          THEN build' = StartCompile(build, p, build.stats, st)
          ELSE build' = Skipped([build EXCEPT !.checks =
                           Append(build.checks,
                                  Check(p, build.stats, st, FALSE))])
    /\ UNCHANGED <<manifest, vsix, src, installed, fsEvents, scan, report, install, cmp,
                   scanLog, pack, art,
                   suspended, publish, del>>

\* Publisher.runCompile returns or throws; on success packageExtension is
\* called.
CompileReturnMutSwallow ==
    /\ build.pc = "compile"
    /\ \E ok \in BOOLEAN :
          build' = [build EXCEPT !.pc = "package",
                      !.calls = Append(build.calls,
                                       <<"package", BuildProject>>),
                      !.returns = Append(build.returns,
                                         Return("compile", BuildProject, ok))]
    /\ UNCHANGED <<manifest, vsix, src, installed, fsEvents, scan, report,
                   install, cmp, scanLog, pack, art,
                   suspended, publish, del>>

CompileReturn ==
    /\ build.pc = "compile"
    /\ \E ok \in BOOLEAN :
          IF ok
          THEN build' = [build EXCEPT !.pc = "package",
                           !.calls = Append(build.calls,
                                            <<"package", BuildProject>>),
                           !.returns = Append(build.returns,
                                         Return("compile", BuildProject, TRUE))]
          ELSE build' = [Failed(build) EXCEPT !.returns =
                           Append(build.returns,
                                  Return("compile", BuildProject, FALSE))]
    /\ UNCHANGED <<manifest, vsix, src, installed, fsEvents, scan, report, install, cmp,
                   scanLog, pack, art,
                   suspended, publish, del>>

\* Publisher.packageExtension returns (the artifact is written) or throws.
PackageReturnMutNoWrite ==
    /\ build.pc = "package"
    /\ \E ok \in BOOLEAN :
          IF ok
          THEN build' = [Succeeded(build) EXCEPT !.returns =
                           Append(build.returns,
                                  Return("package", BuildProject, TRUE))]
          ELSE build' = [Failed(build) EXCEPT !.returns =
                           Append(build.returns,
                                  Return("package", BuildProject, FALSE))]
    /\ UNCHANGED <<manifest, vsix, src, installed, fsEvents, scan, report,
                   install, cmp, scanLog, pack, art,
                   suspended, publish, del>>

PackageReturnMut ==
    /\ build.pc = "package"
    /\ \E ok \in BOOLEAN :
          IF ok
          THEN /\ \E t \in WriteTimes :
                    vsix' = [vsix EXCEPT ![BuildProject] = File(t)]
               /\ build' = [Succeeded(build) EXCEPT !.returns =
                              Append(build.returns,
                                     Return("package", BuildProject, TRUE))]
          ELSE /\ build' = [Failed(build) EXCEPT !.returns =
                              Append(build.returns,
                                     Return("package", BuildProject, FALSE))]
               /\ vsix' = [q \in Projects |->
                             IF \E k \in 1..Len(build.returns) :
                                   build.returns[k] = Return("package", q, TRUE)
                             THEN Missing ELSE vsix[q]]
    /\ UNCHANGED <<manifest, src, installed, fsEvents, scan, report, install, cmp,
                   scanLog, pack, art,
                   suspended, publish, del>>

PackageReturn ==
    /\ build.pc = "package"
    /\ \E ok \in BOOLEAN :
          IF ok
          THEN /\ \E t \in WriteTimes :
                    vsix' = [vsix EXCEPT ![BuildProject] = File(t)]
               /\ build' = [Succeeded(build) EXCEPT !.returns =
                              Append(build.returns,
                                     Return("package", BuildProject, TRUE))]
          ELSE /\ build' = [Failed(build) EXCEPT !.returns =
                              Append(build.returns,
                                     Return("package", BuildProject, FALSE))]
               /\ UNCHANGED vsix
    /\ UNCHANGED <<manifest, src, installed, fsEvents, scan, report, install, cmp,
                   scanLog, pack, art,
                   suspended, publish, del>>

\* The final message, then scanForSuite() is called.
BuildReport ==
    /\ build.pc = "report"
    /\ build' = [build EXCEPT !.pc = "done",
                    !.message = IF Len(build.failedProjects) > 0
                                THEN "partial" ELSE "complete"]
    /\ scan' = LaunchedScan
    /\ scanLog' = Launched
    /\ suspended' = Parked
    /\ UNCHANGED <<manifest, vsix, src, installed, fsEvents, report, install,
                   cmp, pack, art,
                   publish, del>>

(***************************************************************************)
(* installSuite                                                            *)
(***************************************************************************)

\* Longest vsixPaths list of an installSuite message.
MaxPaths == 3

\* An artifact path is named by the project whose artifact it is.
RECURSIVE PathLists(_)
PathLists(n) ==
    IF n = 0 THEN {<< >>}
    ELSE LET shorter == PathLists(n - 1) IN
         shorter \cup {Append(l, p) : l \in {x \in shorter : Len(x) = n - 1},
                                      p \in Projects}

RECURSIVE Dedup(_)
Dedup(l) ==
    IF l = << >> THEN << >>
    ELSE LET front == Dedup(SubSeq(l, 1, Len(l) - 1))
             last == l[Len(l)]
         IN IF \E k \in 1..Len(front) : front[k] = last
            THEN front ELSE Append(front, last)

\* for (const vsixPath of vsixPaths): the list as given.
PathsToInstallMut(vsixPaths) == Dedup(vsixPaths)

PathsToInstall(vsixPaths) == vsixPaths

IdleInstall == [pc |-> "idle", input |-> << >>, paths |-> << >>, i |-> 0,
                installedCount |-> 0, errors |-> << >>, message |-> "none",
                calls |-> << >>, returns |-> << >>]

InstallPath == install.paths[install.i]

\* Loop head: executeCommand for the next path, or the final message.
Continue(ins) ==
    IF ins.i + 1 > Len(ins.paths)
    THEN [ins EXCEPT !.i = ins.i + 1, !.pc = "finish"]
    ELSE [ins EXCEPT !.i = ins.i + 1, !.pc = "installing",
                     !.calls = Append(ins.calls, ins.paths[ins.i + 1])]

\* executeCommand resolved: installedCount++.
InstallSucceededMut(ins) == Continue(ins)

InstallSucceeded(ins) ==
    Continue([ins EXCEPT !.installedCount = ins.installedCount + 1])

\* catch: showErrorMessage naming the path.
InstallFailedMut(ins) ==
    [ins EXCEPT !.errors = Append(ins.errors, ins.paths[ins.i]),
                !.i = Len(ins.paths) + 1, !.pc = "finish"]

InstallFailedMutThrow(ins) ==
    [ins EXCEPT !.errors = Append(ins.errors, ins.paths[ins.i]),
                !.pc = "rejected"]

InstallFailed(ins) ==
    Continue([ins EXCEPT !.errors = Append(ins.errors, ins.paths[ins.i])])

\* The outcome of one executeCommand call.
Installation(path, ok) == [path |-> path, ok |-> ok]

\* installSuite(vsixPaths) called: the first executeCommand, or the final
\* message for an empty list.
installSuite(vsixPaths) ==
    /\ install.pc = "idle"
    /\ install' = Continue([install EXCEPT !.input = vsixPaths,
                              !.paths = PathsToInstall(vsixPaths)])
    /\ UNCHANGED <<manifest, vsix, src, installed, fsEvents, scan, report,
                   build, cmp, scanLog, pack, art,
                   suspended, publish, del>>

\* installSuite message with any vsixPaths.
InstallStart == \E vsixPaths \in PathLists(MaxPaths) : installSuite(vsixPaths)

\* workbench.extensions.installExtension resolves (the extension is
\* registered) or rejects; a missing artifact cannot be installed.
InstallReturn ==
    /\ install.pc = "installing"
    /\ \E ok \in BOOLEAN :
          /\ ok => vsix[InstallPath].exists
          /\ IF ok
             THEN /\ install' = [InstallSucceeded(install) EXCEPT !.returns =
                       Append(install.returns, Installation(InstallPath, TRUE))]
                  /\ \E t \in WriteTimes :
                       installed' = [installed EXCEPT ![InstallPath] =
                          Installed(manifest[InstallPath].version, File(t))]
             ELSE /\ install' = [InstallFailed(install) EXCEPT !.returns =
                       Append(install.returns, Installation(InstallPath, FALSE))]
                  /\ UNCHANGED installed
    /\ UNCHANGED <<manifest, vsix, src, fsEvents, scan, report, build, cmp,
                   scanLog, pack, art,
                   suspended, publish, del>>

\* 'Suite Sync Complete' message, then scanForSuite() is called.
InstallFinishMutNoScan ==
    /\ install.pc = "finish"
    /\ install' = [install EXCEPT !.pc = "done", !.message = "complete"]
    /\ UNCHANGED <<manifest, vsix, src, installed, fsEvents, scan, report,
                   build, cmp, scanLog, pack, art, suspended, publish, del>>

InstallFinish ==
    /\ install.pc = "finish"
    /\ install' = [install EXCEPT !.pc = "done", !.message = "complete"]
    /\ scan' = LaunchedScan
    /\ scanLog' = Launched
    /\ suspended' = Parked
    /\ UNCHANGED <<manifest, vsix, src, installed, fsEvents, report, build,
                   cmp, pack, art,
                   publish, del>>

(***************************************************************************)
(* The suite list of the webview and its 'Sync Selected' button            *)
(***************************************************************************)

\* The suiteStatus handler renders one checkbox per entry of the report,
\* checked unless the status is 'installed'; data-path is the entry's path.
Checked(entry) == entry.status # "installed"

\* syncSuite(): the data-path values of the checked boxes, in card order.
SelectedPaths ==
    [k \in 1..Len(SelectSeq(report, Checked)) |->
        SelectSeq(report, Checked)[k].name]

\* 'Sync Selected' on the list as rendered: nothing is posted for an empty
\* selection, otherwise installSuite is posted and received.
SyncSelected ==
    /\ Len(SelectedPaths) > 0
    /\ installSuite(SelectedPaths)

(***************************************************************************)
(* runPackage                                                              *)
(***************************************************************************)

IdlePack == [pc |-> "idle", path |-> "", message |-> "none"]

IdlePub == [pc |-> "idle", path |-> "", type |-> "", message |-> "none"]

IdleDel == [pc |-> "idle", path |-> "", message |-> "none"]

\* runPackage(projectPath) called: an empty path warns and returns,
\* otherwise Publisher.packageExtension is called.
runPackage(projectPath) ==
    /\ pack.pc = "idle"
    /\ IF projectPath = ""
       THEN pack' = [pack EXCEPT !.pc = "done", !.message = "select"]
       ELSE pack' = [pack EXCEPT !.pc = "packaging", !.path = projectPath]
    /\ UNCHANGED <<manifest, vsix, src, installed, fsEvents, scan, report,
                   build, install, cmp, scanLog, art,
                   suspended, publish, del>>

\* Publisher.packageExtension returns (the artifact is written, then
\* scanForSuite() is called) or throws (an error message, no scan); vsce
\* packages only a manifest that parses and names a publisher.
RunPackageReturn ==
    /\ pack.pc = "packaging"
    /\ \E ok \in BOOLEAN :
          /\ ok => (manifest[pack.path].ok /\ manifest[pack.path].publisher)
          /\ IF ok
             THEN /\ \E t \in WriteTimes :
                       /\ vsix' = [vsix EXCEPT ![pack.path] = File(t)]
                       /\ scanLog' = LaunchedOver(
                             [Env EXCEPT !.vsix[pack.path] = File(t)])
                  /\ pack' = [pack EXCEPT !.pc = "done",
                                          !.message = "packaged"]
                  /\ scan' = LaunchedScan
                  /\ suspended' = Parked
             ELSE /\ pack' = [pack EXCEPT !.pc = "done", !.message = "error"]
                  /\ UNCHANGED <<vsix, scan, scanLog, suspended>>
    /\ UNCHANGED <<manifest, src, installed, fsEvents, report, build,
                   install, cmp, art,
                   publish, del>>

(***************************************************************************)
(* runPublish                                                              *)
(***************************************************************************)

\* A path of the workspace without a package.json.
NoProject == "nowhere"

PublishTypes == {"patch", "minor", "major"}

\* vsce publish <type> bumps the version of a manifest with three numeric
\* components.
Bump(type, v) ==
    IF type = "patch"
    THEN V(v.parts[1].val, v.parts[2].val, v.parts[3].val + 1)
    ELSE IF type = "minor"
    THEN V(v.parts[1].val, v.parts[2].val + 1, 0)
    ELSE V(v.parts[1].val + 1, 0, 0)

Bumpable(v) ==
    /\ v.kind = "dotted"
    /\ Len(v.parts) = 3
    /\ \A k \in 1..3 : v.parts[k].num

\* runPublish(type, projectPath) called: an empty path warns and returns,
\* a path without package.json shows an error and returns, otherwise
\* Publisher.publish is called.
runPublish(type, projectPath) ==
    /\ publish.pc = "idle"
    /\ IF projectPath = ""
       THEN publish' = [publish EXCEPT !.pc = "done", !.message = "select"]
       ELSE IF projectPath = NoProject
       THEN publish' = [publish EXCEPT !.pc = "done", !.message = "error"]
       ELSE publish' = [publish EXCEPT !.pc = "publishing",
                                       !.path = projectPath, !.type = type]
    /\ UNCHANGED <<manifest, vsix, src, installed, fsEvents, scan, report,
                   build, install, cmp, scanLog, pack, art, suspended, del>>

\* Publisher.publish returns (the manifest carries the bumped version, for
\* which no artifact is on disk; then scanForSuite() is called) or throws
\* (an error message, no scan).
RunPublishReturn ==
    /\ publish.pc = "publishing"
    /\ \E ok \in BOOLEAN :
          /\ ok => /\ manifest[publish.path].ok
                   /\ manifest[publish.path].publisher
                   /\ Bumpable(manifest[publish.path].version)
          /\ IF ok
             THEN /\ manifest' = [manifest EXCEPT ![publish.path].version =
                       Bump(publish.type, manifest[publish.path].version)]
                  /\ vsix' = [vsix EXCEPT ![publish.path] = Missing]
                  /\ publish' = [publish EXCEPT !.pc = "done",
                                                !.message = "published"]
                  /\ scan' = LaunchedScan
                  /\ scanLog' = LaunchedOver(
                        [Env EXCEPT !.manifest[publish.path].version =
                            Bump(publish.type,
                                 manifest[publish.path].version),
                                    !.vsix[publish.path] = Missing])
                  /\ suspended' = Parked
             ELSE /\ publish' = [publish EXCEPT !.pc = "done",
                                                !.message = "error"]
                  /\ UNCHANGED <<manifest, vsix, scan, scanLog, suspended>>
    /\ UNCHANGED <<src, installed, fsEvents, report, build, install, cmp,
                   pack, art, del>>

(***************************************************************************)
(* deleteVsix                                                              *)
(***************************************************************************)

\* deleteVsix(vsixPath) called: the modal confirmation is shown.
deleteVsix(vsixPath) ==
    /\ del.pc = "idle"
    /\ del' = [del EXCEPT !.pc = "confirm", !.path = vsixPath]
    /\ UNCHANGED <<manifest, vsix, src, installed, fsEvents, scan, report,
                   build, install, cmp, scanLog, pack, art, suspended,
                   publish>>

\* The answer to the confirmation. On 'Delete' a file that exists is
\* unlinked (then a message and scanForSuite()), or unlinkSync throws (an
\* error message); a file that is gone, or any other answer, ends the
\* handler with nothing done.
DeleteAnswer ==
    /\ del.pc = "confirm"
    /\ \E confirm \in {"Delete", "Cancel"}, ok \in BOOLEAN :
          IF confirm = "Delete" /\ vsix[del.path].exists
          THEN IF ok
               THEN /\ vsix' = [vsix EXCEPT ![del.path] = Missing]
                    /\ del' = [del EXCEPT !.pc = "done",
                                          !.message = "deleted"]
                    /\ scan' = LaunchedScan
                    /\ scanLog' = LaunchedOver(
                          [Env EXCEPT !.vsix[del.path] = Missing])
                    /\ suspended' = Parked
               ELSE /\ del' = [del EXCEPT !.pc = "done", !.message = "error"]
                    /\ UNCHANGED <<vsix, scan, scanLog, suspended>>
          ELSE /\ del' = [del EXCEPT !.pc = "done",
                                     !.message = IF confirm = "Delete"
                                                 THEN "absent"
                                                 ELSE "cancelled"]
               /\ UNCHANGED <<vsix, scan, scanLog, suspended>>
    /\ UNCHANGED <<manifest, src, installed, fsEvents, report, build,
                   install, cmp, pack, art, publish>>

(***************************************************************************)
(* The artifact path of a project descriptor                               *)
(***************************************************************************)

\* The letters of a package name.
Letters == {"a", "A", "b"}

\* Longest package name.
MaxNameLen == 2

\* Every string of 1 .. n letters.
RECURSIVE Strings(_)
Strings(n) ==
    IF n = 0 THEN {<< >>}
    ELSE LET shorter == Strings(n - 1) IN
         shorter \cup {Append(w, ch) : w \in {x \in shorter : Len(x) = n - 1},
                                       ch \in Letters}

Names == Strings(MaxNameLen) \ {<< >>}

\* The folders that hold a package.json.
Dirs == {"/ws/one", "/ws/two"}

\* What both handlers know of a project: the folder of its manifest, and
\* the manifest's name and version.
Descriptor(dir, name, version) ==
    [path |-> dir, name |-> name, version |-> version]

Descriptors ==
    {Descriptor(dir, name, v) : dir \in Dirs, name \in Names,
                                v \in ScanVersions}

\* String.prototype.toLowerCase, letter by letter.
Lower(ch) == IF ch = "A" THEN "a" ELSE ch

ToLowerCase(str) == [k \in 1..Len(str) |-> Lower(str[k])]

\* `${name}-${version}.vsix`.toLowerCase(); the numerals of the version
\* have no case.
VsixName(name, version) ==
    [stem |-> ToLowerCase(name), version |-> version, ext |-> "vsix"]

\* path.join(folder, file name).
Join(dir, file) == [dir |-> dir, file |-> file]

\* The scan: path.join(projectPath, vsixName).
ScanVsixPath(pkg) == Join(pkg.path, VsixName(pkg.name, pkg.version))

\* The bulk build: the same expression on the planned project.
BuildVsixPathMutCase(project) ==
    Join(project.path,
         [stem |-> project.name, version |-> project.version, ext |-> "vsix"])

BuildVsixPath(project) ==
    Join(project.path, VsixName(project.name, project.version))

NoPath == Join("", VsixName(<< >>, EmptyVersion))

IdleArt == [pc |-> "idle",
            d1 |-> Descriptor("", << >>, EmptyVersion),
            d2 |-> Descriptor("", << >>, EmptyVersion),
            scan1 |-> NoPath, scan2 |-> NoPath,
            build1 |-> NoPath, build2 |-> NoPath]

\* Both handlers derive the artifact path of two descriptors.
DerivePaths ==
    /\ art.pc = "args"
    /\ art' = [art EXCEPT !.pc = "done",
                          !.scan1 = ScanVsixPath(art.d1),
                          !.scan2 = ScanVsixPath(art.d2),
                          !.build1 = BuildVsixPath(art.d1),
                          !.build2 = BuildVsixPath(art.d2)]
    /\ UNCHANGED <<manifest, vsix, src, installed, fsEvents, scan, report,
                   build, install, cmp, scanLog, pack,
                   suspended, publish, del>>

(***************************************************************************)
(* One evaluation of compareVersions                                       *)
(***************************************************************************)

IdleCmp == [pc |-> "idle", a |-> EmptyVersion, b |-> EmptyVersion,
            c |-> EmptyVersion, ab |-> 0, ba |-> 0, aa |-> 0, bc |-> 0,
            ac |-> 0]

\* Largest component of the enumerated three-component versions.
MaxPart == 2

\* Well-formed three-component versions, and the strings that exercise a
\* short, a long, a malformed, an empty and an 'unknown' version.
CompareInputs ==
    {V(x, y, z) : x \in 0..MaxPart, y \in 0..MaxPart, z \in 0..MaxPart}
    \cup {V(1, 2, 3), V(1, 2, 4), V(2, 0, 0), V(1, 9, 9),
          Dotted(<<Tok(1), Tok(0)>>), Dotted(<<Tok(1)>>),
          Dotted(<<Tok(1), Tok(2), Tok(0), Tok(7)>>),
          Dotted(<<Tok(1), BadTok, Tok(0)>>),
          Dotted(<<BadTok, Tok(1), Tok(0)>>),
          Dotted(<<Tok(1), Tok(0), BadTok>>),
          EmptyVersion, UnknownVersion}

\* compareVersions called on (a, b), (b, a), (a, a), (b, c) and (a, c).
Compare ==
    /\ cmp.pc = "args"
    /\ cmp' = [cmp EXCEPT !.pc = "done",
                          !.ab = compareVersions(cmp.a, cmp.b),
                          !.ba = compareVersions(cmp.b, cmp.a),
                          !.aa = compareVersions(cmp.a, cmp.a),
                          !.bc = compareVersions(cmp.b, cmp.c),
                          !.ac = compareVersions(cmp.a, cmp.c)]
    /\ UNCHANGED <<manifest, vsix, src, installed, fsEvents, scan, report,
                   build, install,
                   scanLog, pack, art,
                   suspended, publish, del>>

(***************************************************************************)
(* Artifact changes made by other handlers while a scan is suspended       *)
(***************************************************************************)

\* deleteVsix after the confirmation: existsSync + unlinkSync.
ArtifactUnlinked(p) ==
    /\ fsEvents < MaxFsEvents
    /\ scan.pc \notin {"idle", "done"}
    /\ vsix[p].exists
    /\ vsix' = [vsix EXCEPT ![p] = Missing]
    /\ fsEvents' = fsEvents + 1
    /\ UNCHANGED <<manifest, src, installed, scan, report, build, install, cmp,
                   scanLog, pack, art,
                   suspended, publish, del>>

\* vsce package finishing (runPackage): the artifact is (re)written.
ArtifactPackaged(p) ==
    /\ fsEvents < MaxFsEvents
    /\ scan.pc \notin {"idle", "done"}
    /\ manifest[p].ok /\ manifest[p].publisher
    /\ \E t \in WriteTimes : vsix' = [vsix EXCEPT ![p] = File(t)]
    /\ fsEvents' = fsEvents + 1
    /\ UNCHANGED <<manifest, src, installed, scan, report, build, install, cmp,
                   scanLog, pack, art,
                   suspended, publish, del>>

(***************************************************************************)
(* Specification of one suite scan over any workspace state                *)
(***************************************************************************)

\* A project that the scan skips or finds empty: nothing on disk, nothing
\* installed.
BareManifests == {BadManifest, Manifest(FALSE, FALSE, V(1, 2, 0)),
                  Manifest(TRUE, FALSE, V(1, 2, 0))}

\* One project in any state of artifact, source, version and installation;
\* the others bare, all of one kind.
InitScan ==
    /\ \E focus \in Projects, bare \in BareManifests,
          v \in ScanVersions, a \in FileStates, s \in FileStates,
          inst \in InstalledStates :
          /\ manifest = [p \in Projects |->
                           IF p = focus THEN Manifest(TRUE, FALSE, v) ELSE bare]
          /\ vsix = [p \in Projects |-> IF p = focus THEN a ELSE Missing]
          /\ src = [p \in Projects |-> IF p = focus THEN s ELSE Missing]
          /\ installed = [p \in Projects |->
                            IF p = focus THEN inst ELSE NotInstalled]
    /\ fsEvents = 0
    /\ scan = IdleScan
    /\ report = << >>
    /\ build = IdleBuild
    /\ install = IdleInstall
    /\ cmp = IdleCmp
    /\ scanLog = << >>
    /\ pack = IdlePack
    /\ suspended = {}
    /\ publish = IdlePub
    /\ del = IdleDel
    /\ art = IdleArt

NextScan ==
    \/ ScanStart
    \/ ScanRead
    \/ ScanStatVsix
    \/ ScanStatSrc
    \/ ScanClassify
    \/ ScanStatVsix2
    \/ ScanStatInst
    \/ ScanPost
    \/ \E p \in Projects : ArtifactUnlinked(p)
    \/ \E p \in Projects : ArtifactPackaged(p)

SpecScan == InitScan /\ [][NextScan]_vars

(***************************************************************************)
(* Specification of successive suite scans, another handler changing an    *)
(* artifact while one of them runs                                         *)
(***************************************************************************)

\* The second project of the inventory in any state of artifact, source
\* and installation; the others publishable with nothing on disk and
\* nothing installed.
InitRescan ==
    /\ \E a \in {Missing, File(0), File(TOLERANCE)},
          s \in {File(0), File(TOLERANCE)},
          inst \in {NotInstalled, Installed(V(1, 2, 0), File(0))} :
          /\ manifest = [p \in Projects |-> Manifest(TRUE, FALSE, V(1, 2, 0))]
          /\ vsix = [p \in Projects |->
                       IF p = Inventory[2] THEN a ELSE Missing]
          /\ src = [p \in Projects |->
                      IF p = Inventory[2] THEN s ELSE Missing]
          /\ installed = [p \in Projects |->
                            IF p = Inventory[2] THEN inst ELSE NotInstalled]
    /\ fsEvents = 0
    /\ scan = IdleScan
    /\ report = << >>
    /\ build = IdleBuild
    /\ install = IdleInstall
    /\ cmp = IdleCmp
    /\ scanLog = << >>
    /\ pack = IdlePack
    /\ suspended = {}
    /\ publish = IdlePub
    /\ del = IdleDel
    /\ art = IdleArt

NextRescan ==
    \/ ScanStart
    \/ ScanAgain
    \/ ScanRead
    \/ ScanStatVsix
    \/ ScanStatSrc
    \/ ScanClassify
    \/ ScanStatVsix2
    \/ ScanStatInst
    \/ ScanPost
    \/ \E p \in Projects : ArtifactUnlinked(p)
    \/ \E p \in Projects : ArtifactPackaged(p)

SpecRescan == InitRescan /\ [][NextRescan]_vars

(***************************************************************************)
(* Specification of one bulk build over any workspace state                *)
(***************************************************************************)

\* What a project can look like on disk: not buildable (no compile script,
\* nothing on disk), or buildable with any artifact and src state.
BuildFileStates == {Missing, File(0), File(TOLERANCE)}

BuildLayouts ==
    {[m |-> Manifest(TRUE, FALSE, V(1, 2, 0)), a |-> Missing, s |-> Missing],
     [m |-> BadManifest, a |-> Missing, s |-> Missing]}
    \cup {[m |-> Manifest(TRUE, TRUE, V(1, 2, 0)), a |-> a, s |-> s] :
             a \in BuildFileStates, s \in BuildFileStates}

InitBuild ==
    /\ \E lay \in [Projects -> BuildLayouts] :
          /\ manifest = [p \in Projects |-> lay[p].m]
          /\ vsix = [p \in Projects |-> lay[p].a]
          /\ src = [p \in Projects |-> lay[p].s]
          /\ installed = [p \in Projects |->
                            IF p = Inventory[1]
                            THEN Installed(V(1, 2, 0), File(0))
                            ELSE NotInstalled]
    /\ fsEvents = 0
    /\ scan = IdleScan
    /\ report = << >>
    /\ build = IdleBuild
    /\ install = IdleInstall
    /\ cmp = IdleCmp
    /\ scanLog = << >>
    /\ pack = IdlePack
    /\ suspended = {}
    /\ publish = IdlePub
    /\ del = IdleDel
    /\ art = IdleArt

NextBuild ==
    \/ CompileStart
    \/ BuildStatVsix
    \/ BuildStatSrc
    \/ CompileReturn
    \/ PackageReturn
    \/ BuildReport
    \/ ScanRead
    \/ ScanStatVsix
    \/ ScanStatSrc
    \/ ScanClassify
    \/ ScanStatVsix2
    \/ ScanStatInst
    \/ ScanPost

SpecBuild == InitBuild /\ [][NextBuild]_vars

(***************************************************************************)
(* Specification of two bulk builds in a row with nothing modified between *)
(* them. The scans the runs call are recorded; their steps are followed in *)
(* SpecBuild.                                                              *)
(***************************************************************************)

InitRebuild ==
    /\ manifest = [p \in Projects |->
                      Manifest(TRUE, p # Inventory[3], V(1, 2, 0))]
    /\ \E a \in BuildFileStates, s \in BuildFileStates :
          /\ vsix = [p \in Projects |->
                       IF p = Inventory[1] THEN a
                       ELSE IF p = Inventory[2] THEN File(TOLERANCE)
                       ELSE Missing]
          /\ src = [p \in Projects |->
                      IF p = Inventory[1] THEN s
                      ELSE IF p = Inventory[2] THEN File(0)
                      ELSE Missing]
    /\ installed = [p \in Projects |-> NotInstalled]
    /\ fsEvents = 0
    /\ scan = IdleScan
    /\ report = << >>
    /\ build = IdleBuild
    /\ install = IdleInstall
    /\ cmp = IdleCmp
    /\ scanLog = << >>
    /\ pack = IdlePack
    /\ suspended = {}
    /\ publish = IdlePub
    /\ del = IdleDel
    /\ art = IdleArt

NextRebuild ==
    \/ CompileStart
    \/ BuildStatVsix
    \/ BuildStatSrc
    \/ CompileReturn
    \/ PackageReturn
    \/ BuildReport
    \/ CompileAgain

SpecRebuild == InitRebuild /\ [][NextRebuild]_vars

(***************************************************************************)
(* Specification of one bulk install of any list of artifact paths         *)
(***************************************************************************)

InitInstall ==
    /\ manifest = [p \in Projects |-> Manifest(TRUE, FALSE, V(1, 2, 0))]
    /\ vsix \in [Projects -> {Missing, File(0)}]
    /\ src = [p \in Projects |-> Missing]
    /\ installed = [p \in Projects |-> NotInstalled]
    /\ fsEvents = 0
    /\ scan = IdleScan
    /\ report = << >>
    /\ build = IdleBuild
    /\ install = IdleInstall
    /\ cmp = IdleCmp
    /\ scanLog = << >>
    /\ pack = IdlePack
    /\ suspended = {}
    /\ publish = IdlePub
    /\ del = IdleDel
    /\ art = IdleArt

NextInstall ==
    \/ InstallStart
    \/ InstallReturn
    \/ InstallFinish
    \/ ScanRead
    \/ ScanStatVsix
    \/ ScanStatSrc
    \/ ScanClassify
    \/ ScanStatVsix2
    \/ ScanStatInst
    \/ ScanPost

SpecInstall == InitInstall /\ [][NextInstall]_vars

(***************************************************************************)
(* Specification of compareVersions over any three version strings         *)
(***************************************************************************)

InitCompare ==
    /\ manifest = [p \in Projects |-> BadManifest]
    /\ vsix = [p \in Projects |-> Missing]
    /\ src = [p \in Projects |-> Missing]
    /\ installed = [p \in Projects |-> NotInstalled]
    /\ fsEvents = 0
    /\ scan = IdleScan
    /\ report = << >>
    /\ build = IdleBuild
    /\ install = IdleInstall
    /\ scanLog = << >>
    /\ pack = IdlePack
    /\ suspended = {}
    /\ publish = IdlePub
    /\ del = IdleDel
    /\ art = IdleArt
    /\ \E a \in CompareInputs, b \in CompareInputs, c \in CompareInputs :
          cmp = [IdleCmp EXCEPT !.pc = "args", !.a = a, !.b = b, !.c = c]

NextCompare == Compare

SpecCompare == InitCompare /\ [][NextCompare]_vars

(***************************************************************************)
(* Specification of the message dispatcher: the handlers of the webview's  *)
(* messages are called without being awaited, so the steps of one run      *)
(* between the steps of another.  The scan a run calls at its end is       *)
(* recorded as called; its steps are followed in SpecScan, SpecBuild and   *)
(* SpecInstall.                                                            *)
(***************************************************************************)

\* The messages of the webview that start a run driving a build, package
\* or install collaborator.
Messages ==
    {[type |-> "compileSuite"]}
    \cup {[type |-> "package", projectPath |-> path] :
             path \in {"", Inventory[2]}}
    \cup {[type |-> "installSuite", vsixPaths |-> l] :
             l \in {<< >>, <<Inventory[3]>>, <<Inventory[1], Inventory[2]>>}}

\* onDidReceiveMessage: the switch on data.type.
Receive(data) ==
    \/ data.type = "package" /\ runPackage(data.projectPath)
    \/ data.type = "installSuite" /\ installSuite(data.vsixPaths)
    \/ data.type = "compileSuite" /\ CompileStart

\* The first n projects of the inventory have a compile script, the first
\* has an artifact or not, the last has the newest file of the workspace
\* and no compile script.
InitDispatch ==
    /\ \E n \in 0..2, a \in {Missing, File(TOLERANCE)} :
          /\ manifest = [p \in Projects |->
                           Manifest(TRUE,
                                    \E k \in 1..n : Inventory[k] = p,
                                    V(1, 2, 0))]
          /\ vsix = [p \in Projects |->
                       IF p = Inventory[1] THEN a
                       ELSE IF p = Inventory[3]
                       THEN File(TOLERANCE + MaxSkew) ELSE Missing]
    /\ src = [p \in Projects |-> File(0)]
    /\ installed = [p \in Projects |-> NotInstalled]
    /\ fsEvents = 0
    /\ scan = IdleScan
    /\ report = << >>
    /\ build = IdleBuild
    /\ install = IdleInstall
    /\ cmp = IdleCmp
    /\ scanLog = << >>
    /\ pack = IdlePack
    /\ suspended = {}
    /\ publish = IdlePub
    /\ del = IdleDel
    /\ art = IdleArt

\* A step of the running bulk build.
BuildStep ==
    \/ BuildStatVsix
    \/ BuildStatSrc
    \/ CompileReturn
    \/ PackageReturn
    \/ BuildReport

\* A step of the running bulk install.
InstallStep ==
    \/ InstallReturn
    \/ InstallFinish

NextDispatch ==
    \/ \E data \in Messages : Receive(data)
    \/ BuildStep
    \/ InstallStep
    \/ RunPackageReturn

SpecDispatch == InitDispatch /\ [][NextDispatch]_vars

\* Every promise a run awaits settles and the event loop then resumes the
\* run: a step of a run that stays possible is eventually taken.
SpecDispatchFair ==
    /\ InitDispatch
    /\ [][NextDispatch]_vars
    /\ WF_vars(BuildStep)
    /\ WF_vars(InstallStep)

(***************************************************************************)
(* Specification of the artifact path over any two descriptors             *)
(***************************************************************************)

InitPath ==
    /\ manifest = [p \in Projects |-> BadManifest]
    /\ vsix = [p \in Projects |-> Missing]
    /\ src = [p \in Projects |-> Missing]
    /\ installed = [p \in Projects |-> NotInstalled]
    /\ fsEvents = 0
    /\ scan = IdleScan
    /\ report = << >>
    /\ build = IdleBuild
    /\ install = IdleInstall
    /\ cmp = IdleCmp
    /\ scanLog = << >>
    /\ pack = IdlePack
    /\ suspended = {}
    /\ publish = IdlePub
    /\ del = IdleDel
    /\ \E d1 \in Descriptors, d2 \in Descriptors :
          art = [IdleArt EXCEPT !.pc = "args", !.d1 = d1, !.d2 = d2]

NextPath == DerivePaths

SpecPath == InitPath /\ [][NextPath]_vars

(***************************************************************************)
(* Specification of a scan, 'Sync Selected' on its report, the bulk        *)
(* install and the scan it calls                                           *)
(***************************************************************************)

InitSync ==
    /\ manifest = [p \in Projects |-> Manifest(TRUE, FALSE, V(1, 2, 0))]
    /\ vsix \in [Projects -> {Missing, File(TOLERANCE)}]
    /\ src = [p \in Projects |-> File(0)]
    /\ \E inst \in {NotInstalled, Installed(V(1, 1, 0), File(0)),
                     Installed(V(1, 2, 0), File(0))} :
          installed = [p \in Projects |->
                         IF p = Inventory[1] THEN inst ELSE NotInstalled]
    /\ fsEvents = 0
    /\ scan = IdleScan
    /\ report = << >>
    /\ build = IdleBuild
    /\ install = IdleInstall
    /\ cmp = IdleCmp
    /\ scanLog = << >>
    /\ pack = IdlePack
    /\ suspended = {}
    /\ publish = IdlePub
    /\ del = IdleDel
    /\ art = IdleArt

NextSync ==
    \/ ScanStart
    \/ ScanRead
    \/ ScanStatVsix
    \/ ScanStatSrc
    \/ ScanClassify
    \/ ScanStatVsix2
    \/ ScanStatInst
    \/ ScanPost
    \/ SyncSelected
    \/ InstallReturn
    \/ InstallFinish

SpecSync == InitSync /\ [][NextSync]_vars

(***************************************************************************)
(* Properties of the scan                                                  *)
(***************************************************************************)

\* Every entry pushed so far by the running scan, and the delivered report.
Entries == {scan.suite[k] : k \in 1..Len(scan.suite)}
           \cup {report[k] : k \in 1..Len(report)}

\* The staleness of the artifact as the entry's two stat results show it.
ObservedStale(e) ==
    \/ ~e.stats.exists
    \/ e.srcStats.exists /\ e.srcStats.mtime > e.stats.mtime

\* The scan holds its staleness decision for the current project.
StaleDecided == scan.pc \in {"classify", "statVsix2", "statInst"}

\* C1: an installed project whose manifest version is greater than the
\* installed version is reported 'update', whatever the artifact's
\* existence, staleness and timestamps.
C1_VersionBumpIsUpdate ==
    \A e \in Entries :
        (e.hasInstalled /\ compareVersions(e.version, e.installedVersion) > 0)
        => e.status = "update"

C1_Witness ==
    \E e \in Entries :
        /\ e.hasInstalled
        /\ e.version = V(1, 2, 0) /\ e.installedVersion = V(1, 1, 0)
        /\ e.stats.exists /\ e.isStale
        /\ e.status = "update"

\* C2: a project reported 'installed' had an artifact that existed and was
\* not stale when the scan inspected it.
C2_InstalledIsCurrent ==
    \A e \in Entries :
        e.status = "installed" => (e.stats.exists /\ ~ObservedStale(e))

C2_Witness ==
    \E k \in 1..Len(report) :
        /\ report[k].status = "installed"
        /\ report[k].srcStats.exists

\* C3: installed, manifest version not greater than the installed one, and
\* a stale artifact (missing, or older than src): the status is 'stale'.
C3_StaleWhenNotNewer ==
    \A e \in Entries :
        (/\ e.hasInstalled
         /\ compareVersions(e.version, e.installedVersion) <= 0
         /\ ObservedStale(e))
        => e.status = "stale"

C3_Witness ==
    \E e \in Entries :
        /\ e.hasInstalled
        /\ e.version = V(1, 2, 0) /\ e.installedVersion = V(1, 2, 0)
        /\ ~e.stats.exists
        /\ e.status = "stale"

\* C4: installed, manifest version not greater, artifact present and not
\* stale: 'update' iff the artifact mtime read for the comparison is
\* strictly greater than the installed manifest mtime plus TOLERANCE,
\* 'installed' otherwise (at the boundary, and when the installed manifest
\* cannot be read).
C4_ToleranceBoundary ==
    \A e \in Entries :
        (/\ e.hasInstalled
         /\ compareVersions(e.version, e.installedVersion) <= 0
         /\ e.stats.exists /\ ~ObservedStale(e))
        => /\ e.status \in {"update", "installed"}
           /\ e.status = "update" <=>
                (e.instStats.exists
                 /\ e.stats2.mtime > e.instStats.mtime + TOLERANCE)

C4_Witness ==
    \E e \in Entries :
        /\ e.hasInstalled
        /\ e.instStats.exists
        /\ e.stats2.exists
        /\ e.stats2.mtime = e.instStats.mtime + TOLERANCE
        /\ e.status = "installed"

\* C5: with no installed counterpart the status is 'new' iff the artifact
\* exists and 'stale' iff it does not, whatever the src/artifact timestamps.
C5_NotInstalled ==
    \A e \in Entries :
        ~e.hasInstalled
        => /\ e.status = "new" <=> e.stats.exists
           /\ e.status = "stale" <=> ~e.stats.exists

C5_Witness ==
    \E e \in Entries :
        /\ ~e.hasInstalled
        /\ e.stats.exists
        /\ e.srcStats.exists /\ e.srcStats.mtime > e.stats.mtime
        /\ e.status = "new"

\* C6: the scan's staleness decision is true whenever the artifact does
\* not exist, for every state of the src folder.
C6_AbsentArtifactIsStale ==
    /\ StaleDecided => (~scan.loc.stats.exists => scan.loc.isStale)
    /\ \A e \in Entries : ~e.stats.exists => e.isStale

C6_Witness ==
    /\ scan.pc = "classify"
    /\ ~scan.loc.stats.exists
    /\ src[ScanProject].exists
    /\ src[ScanProject].mtime = 0

\* C7: artifact and src both present: stale iff the src mtime is strictly
\* greater than the artifact mtime (equal mtimes: not stale).
C7_StrictlyNewerSource ==
    /\ StaleDecided =>
          ((scan.loc.stats.exists /\ scan.loc.srcStats.exists)
           => (scan.loc.isStale <=>
                 scan.loc.srcStats.mtime > scan.loc.stats.mtime))
    /\ \A e \in Entries :
          (e.stats.exists /\ e.srcStats.exists)
          => (e.isStale <=> e.srcStats.mtime > e.stats.mtime)

C7_Witness ==
    /\ scan.pc = "classify"
    /\ scan.loc.stats.exists /\ scan.loc.srcStats.exists
    /\ scan.loc.srcStats.mtime = scan.loc.stats.mtime
    /\ ~scan.loc.isStale

\* C8: artifact present, src folder absent (its stat throws): not stale.
C8_UnreadableSourceNotStale ==
    /\ StaleDecided =>
          ((scan.loc.stats.exists /\ ~scan.loc.srcStats.exists)
           => ~scan.loc.isStale)
    /\ \A e \in Entries :
          (e.stats.exists /\ ~e.srcStats.exists) => ~e.isStale

C8_Witness ==
    /\ scan.pc = "classify"
    /\ scan.loc.stats.exists
    /\ ~scan.loc.srcStats.exists
    /\ ~scan.loc.isStale

(***************************************************************************)
(* Properties of the bulk build                                            *)
(***************************************************************************)

Checks == {build.checks[k] : k \in 1..Len(build.checks)}

IsCompileCall(c) == c[1] = "compile"

WasBuilt(c) == c.needsBuild

WasSkipped(c) == ~c.needsBuild

NumCompileCalls == Len(SelectSeq(build.calls, IsCompileCall))

NumNeedingBuild == Len(SelectSeq(build.checks, WasBuilt))

NumSkipped == Len(SelectSeq(build.checks, WasSkipped))

FailedNames == {build.failedProjects[k] : k \in 1..Len(build.failedProjects)}

\* C9: for every artifact and src state the bulk build's needsBuild equals
\* the scan's isStale, also for equal mtimes and for an absent src folder.
C9_NeedsBuildIsStale ==
    \A c \in Checks : c.needsBuild = IsStale(c.stats, c.srcStats)

\* C10: a project the smart check finds up to date is counted as succeeded
\* and neither compile nor package is called for it; the compile calls of
\* a run are as many as the planned projects that need a build.
C10_SkipUpToDate ==
    /\ \A c \in Checks :
          ~c.needsBuild =>
             /\ \A k \in 1..Len(build.calls) : build.calls[k][2] # c.name
             /\ c.name \notin FailedNames
    /\ NumCompileCalls = NumNeedingBuild
    /\ build.successCount >= NumSkipped
    /\ (build.pc = "done" /\ build.message # "nothing") =>
          build.successCount + Len(build.failedProjects) = Len(build.plan)

C10_Witness ==
    /\ build.pc = "done"
    /\ Len(build.plan) = 3
    /\ NumSkipped = 2
    /\ NumNeedingBuild = 1
    /\ NumCompileCalls = 1
    /\ build.successCount = 3

Returns == {build.returns[k] : k \in 1..Len(build.returns)}

Calls == {build.calls[k] : k \in 1..Len(build.calls)}

\* Position of a project in the inventory.
Pos(p) == CHOOSE k \in 1..Len(Inventory) : Inventory[k] = p

\* The run went through its loop and showed its final message.
BuildCompleted == build.pc = "done" /\ build.message # "nothing"

\* C11: a build or package failure is recorded in the failed list and the
\* later projects are still processed; at completion the failed list holds
\* exactly the projects whose build or package threw, once each, and
\* successCount plus the failed names is the plan size.
C11_FailureIsolation ==
    /\ FailedNames = {r.name : r \in {x \in Returns : ~x.ok}}
    /\ Cardinality(FailedNames) = Len(build.failedProjects)
    /\ BuildCompleted =>
          /\ Len(build.checks) = Len(build.plan)
          /\ \A k \in 1..Len(build.plan) : build.checks[k].name = build.plan[k]
          /\ build.successCount + Len(build.failedProjects) = Len(build.plan)

C11_Witness ==
    /\ BuildCompleted
    /\ Len(build.plan) = 3
    /\ build.checks[1].needsBuild
    /\ ~build.checks[2].needsBuild /\ ~build.checks[3].needsBuild
    /\ build.failedProjects = <<build.plan[1]>>
    /\ build.successCount = 2

\* C12: compile/package calls of one run are made one project at a time in
\* inventory order, each only after the previous call returned: at most
\* one call is in flight.
C12_OneAtATime ==
    /\ Len(build.calls) - Len(build.returns) \in {0, 1}
    /\ (Len(build.calls) - Len(build.returns) = 1)
          <=> build.pc \in {"compile", "package"}
    /\ \A k \in 1..Len(build.returns) :
          /\ build.returns[k].kind = build.calls[k][1]
          /\ build.returns[k].name = build.calls[k][2]
    /\ \A k, l \in 1..Len(build.calls) :
          k < l =>
             \/ Pos(build.calls[k][2]) < Pos(build.calls[l][2])
             \/ /\ build.calls[k][2] = build.calls[l][2]
                /\ l = k + 1
                /\ build.calls[k][1] = "compile"
                /\ build.calls[l][1] = "package"

C12_Witness ==
    /\ build.pc = "package"
    /\ Len(build.calls) = 4
    /\ Len(build.returns) = 3
    /\ build.calls[1][2] # build.calls[4][2]

\* C13: a project whose manifest has no compile script is not in the plan:
\* never checked, built or packaged, and counted neither as succeeded nor
\* as failed.
C13_NoScriptExcluded ==
    /\ \A p \in Projects :
          ~(manifest[p].ok /\ manifest[p].compile) =>
             /\ \A k \in 1..Len(build.plan) : build.plan[k] # p
             /\ \A c \in Calls : c[2] # p
             /\ \A c \in Checks : c.name # p
             /\ p \notin FailedNames
    /\ build.successCount + Len(build.failedProjects)
          <= Cardinality({p \in Projects : manifest[p].ok /\ manifest[p].compile})

C13_Witness ==
    /\ BuildCompleted
    /\ \E p \in Projects :
          manifest[p].ok /\ manifest[p].publisher /\ ~manifest[p].compile
    /\ Len(build.plan) = 2
    /\ Len(build.calls) = 4
    /\ build.successCount = 2

\* C14: when no project has a compile script the bulk build warns that
\* there is nothing to build and makes no compile, package or stat call
\* (no smart check, no scan).
C14_NothingToBuild ==
    (build.pc # "idle"
     /\ \A p \in Projects : ~(manifest[p].ok /\ manifest[p].compile))
    => /\ build.pc = "done"
       /\ build.message = "nothing"
       /\ build.calls = << >>
       /\ build.checks = << >>
       /\ scan.pc = "idle"

C14_Witness ==
    /\ build.pc = "done"
    /\ build.message = "nothing"
    /\ \E p \in Projects : manifest[p].ok /\ manifest[p].publisher
    /\ \A p \in Projects : ~manifest[p].compile

\* C15: a step of the run that records a failure changes no artifact, and
\* no step of the run removes an artifact or turns its mtime back.
C15_NoRollback ==
    [][/\ Len(build'.failedProjects) > Len(build.failedProjects)
          => vsix' = vsix
       /\ \A p \in Projects :
             vsix[p].exists =>
                (vsix'[p].exists /\ vsix'[p].mtime >= vsix[p].mtime)]_vars

C15_Witness ==
    /\ BuildCompleted
    /\ Len(build.returns) >= 3
    /\ build.returns[2] = Return("package", build.plan[1], TRUE)
    /\ ~build.returns[Len(build.returns)].ok
    /\ build.returns[Len(build.returns)].name # build.plan[1]
    /\ vsix[build.plan[1]].exists

(***************************************************************************)
(* Properties of the bulk install                                          *)
(***************************************************************************)

InstallReturns == {install.returns[k] : k \in 1..Len(install.returns)}

InstallErrors == {install.errors[k] : k \in 1..Len(install.errors)}

IsOk(r) == r.ok

IsFailure(r) == ~r.ok

\* The paths of the rejected installs, in the order they were made.
RECURSIVE RejectedPaths(_)
RejectedPaths(rs) ==
    IF rs = << >> THEN << >>
    ELSE LET front == RejectedPaths(SubSeq(rs, 1, Len(rs) - 1))
             last == rs[Len(rs)]
         IN IF last.ok THEN front ELSE Append(front, last.path)

\* C16: the install calls made are the message's list: same order, same
\* length, one call per occurrence of a path, each call made only after
\* the previous one returned.
C16_InstallsFollowInput ==
    /\ Len(install.calls) <= Len(install.input)
    /\ \A k \in 1..Len(install.calls) : install.calls[k] = install.input[k]
    /\ Len(install.calls) - Len(install.returns) \in {0, 1}
    /\ (Len(install.calls) - Len(install.returns) = 1)
          <=> install.pc = "installing"
    /\ install.pc = "done" => install.calls = install.input

C16_Witness ==
    /\ install.pc = "done"
    /\ Len(install.input) = 3
    /\ install.input[1] = install.input[3]
    /\ install.input[1] # install.input[2]
    /\ install.calls = install.input

\* C17: a rejected install is reported by an error naming that path, and
\* every later path of the list is still attempted.
C17_InstallFailureIsolation ==
    /\ \A r \in InstallReturns : ~r.ok => r.path \in InstallErrors
    /\ install.pc = "done" =>
          /\ Len(install.returns) = Len(install.input)
          /\ \A k \in 1..Len(install.input) :
                install.returns[k].path = install.input[k]

C17_Witness ==
    /\ install.pc = "done"
    /\ Len(install.input) = 3
    /\ install.returns[1].ok
    /\ ~install.returns[2].ok
    /\ install.returns[3].ok
    /\ install.installedCount = 2
    /\ install.errors = <<install.input[2]>>

\* C18: at completion installedCount is the number of installs that
\* resolved, the errors are the rejected paths (one each, in input order),
\* and installedCount plus the number of errors is the length of the list.
C18_InstallCounts ==
    install.pc = "done" =>
       /\ install.installedCount = Len(SelectSeq(install.returns, IsOk))
       /\ install.errors = RejectedPaths(install.returns)
       /\ install.installedCount + Len(install.errors) = Len(install.input)

C18_Witness ==
    /\ install.pc = "done"
    /\ Len(install.input) = 3
    /\ install.installedCount = 1
    /\ Len(install.errors) = 2
    /\ install.errors[1] = install.errors[2]

(***************************************************************************)
(* Properties of compareVersions                                           *)
(***************************************************************************)

\* Every token is a numeral.
Numeric(v) ==
    v.kind = "dotted" /\ \A k \in 1..Len(v.parts) : v.parts[k].num

WellFormed3(v) == Numeric(v) /\ Len(v.parts) = 3

\* The k-th component, zero when missing.
Component(v, k) == IF k <= Len(v.parts) THEN v.parts[k].val ELSE 0

\* The first three components (each below 10) read as one number.
Key(v) == 100 * Component(v, 1) + 10 * Component(v, 2) + Component(v, 3)

Sign(x) == IF x > 0 THEN 1 ELSE IF x < 0 THEN -1 ELSE 0

\* C19: on well-formed three-component versions compareVersions is
\* antisymmetric, compare(a,b) = -compare(b,a), and reflexive,
\* compare(a,a) = 0.
C19_AntisymmetricReflexive ==
    (cmp.pc = "done" /\ WellFormed3(cmp.a) /\ WellFormed3(cmp.b))
    => (cmp.ab = 0 - cmp.ba /\ cmp.aa = 0)

C19_Witness ==
    /\ cmp.pc = "done"
    /\ WellFormed3(cmp.a) /\ WellFormed3(cmp.b)
    /\ cmp.ab = 1 /\ cmp.ba = -1 /\ cmp.aa = 0

\* C20: compareVersions is the lexicographic comparison of the first three
\* numeric components, a missing component read as zero and components
\* after the third ignored: 1.2.3 < 1.2.4, 2.0.0 > 1.9.9, 1.0 = 1.0.0.
C20_LexicographicFirstThree ==
    cmp.pc = "done" =>
       /\ (Numeric(cmp.a) /\ Numeric(cmp.b))
             => cmp.ab = Sign(Key(cmp.a) - Key(cmp.b))
       /\ (cmp.a = V(1, 2, 3) /\ cmp.b = V(1, 2, 4)) => cmp.ab = -1
       /\ (cmp.a = V(2, 0, 0) /\ cmp.b = V(1, 9, 9)) => cmp.ab = 1
       /\ (cmp.a = Dotted(<<Tok(1), Tok(0)>>) /\ cmp.b = V(1, 0, 0))
             => cmp.ab = 0

C20_Witness ==
    /\ cmp.pc = "done"
    /\ cmp.a = Dotted(<<Tok(1), Tok(0)>>)
    /\ cmp.b = V(1, 0, 0)
    /\ cmp.ab = 0

\* The version is the empty string or the placeholder 'unknown'.
Placeholder(v) == v.kind = "empty" \/ v.kind = "unknown"

\* C21: compareVersions returns 0 whenever either argument is empty or
\* the literal 'unknown', whatever the other argument is.
C21_PlaceholderIsEqual ==
    cmp.pc = "done" =>
       /\ (Placeholder(cmp.a) \/ Placeholder(cmp.b))
             => (cmp.ab = 0 /\ cmp.ba = 0)
       /\ (Placeholder(cmp.a) \/ Placeholder(cmp.c)) => cmp.ac = 0
       /\ (Placeholder(cmp.b) \/ Placeholder(cmp.c)) => cmp.bc = 0

C21_Witness ==
    /\ cmp.pc = "done"
    /\ cmp.a = UnknownVersion /\ cmp.b = V(1, 0, 0) /\ cmp.c = EmptyVersion
    /\ cmp.ab = 0 /\ cmp.ba = 0 /\ cmp.bc = 0

\* The version with every token that is not a numeral replaced by 0.
Zeroed(v) ==
    Dotted([k \in 1..Len(v.parts) |->
              IF v.parts[k].num THEN v.parts[k] ELSE Tok(0)])

\* C22: compareVersions gives a result (-1, 0 or 1) on every input, and a
\* component that is not a number counts as zero: two dotted versions
\* that are the same once every malformed component is replaced by 0
\* compare equal, and a version with a malformed component compares to
\* any other as its zeroed form does.
C22_MalformedReadAsZero ==
    cmp.pc = "done" =>
       /\ cmp.ab \in {-1, 0, 1}
       /\ (cmp.a.kind = "dotted" /\ cmp.b.kind = "dotted")
             => /\ Zeroed(cmp.a) = Zeroed(cmp.b) => cmp.ab = 0
                /\ cmp.ab = Sign(Key(Zeroed(cmp.a)) - Key(Zeroed(cmp.b)))

C22_Witness ==
    /\ cmp.pc = "done"
    /\ cmp.a = Dotted(<<Tok(1), BadTok, Tok(0)>>)
    /\ cmp.b = V(1, 0, 0)
    /\ cmp.ab = 0 /\ cmp.ba = 0

\* C23: on well-formed three-component versions compareVersions is a
\* total order: transitive (compare(a,b) <= 0 and compare(b,c) <= 0 give
\* compare(a,c) <= 0), and compare(a,b) = 0 only when a and b have the
\* same three components.
C23_TotalOrder ==
    (cmp.pc = "done" /\ WellFormed3(cmp.a) /\ WellFormed3(cmp.b)
        /\ WellFormed3(cmp.c))
    => /\ (cmp.ab <= 0 /\ cmp.bc <= 0) => cmp.ac <= 0
       /\ cmp.ab = 0 => cmp.a.parts = cmp.b.parts
       /\ cmp.ab \in {-1, 0, 1}

C23_Witness ==
    /\ cmp.pc = "done"
    /\ cmp.a = V(0, 2, 2) /\ cmp.b = V(1, 0, 2) /\ cmp.c = V(1, 1, 0)
    /\ cmp.ab = -1 /\ cmp.bc = -1 /\ cmp.ac = -1

(***************************************************************************)
(* Properties of the scan as a whole                                       *)
(***************************************************************************)

\* Any step of the running scan.
ScanStep ==
    \/ ScanRead
    \/ ScanStatVsix
    \/ ScanStatSrc
    \/ ScanClassify
    \/ ScanStatVsix2
    \/ ScanStatInst
    \/ ScanPost

\* The manifest parses and names a publisher.
Publishable(p) == manifest[p].ok /\ manifest[p].publisher

FourStatuses == {"new", "update", "installed", "stale"}

\* The positions of the suite that classify project p.
EntriesOf(p, suite) ==
    {k \in 1..Len(suite) :
        suite[k].name = p /\ suite[k].status \in FourStatuses}

\* C24: a failure while one project is processed never stops the scan:
\* the running scan always has a next step, the report is delivered, and
\* it classifies every publishable project whose own processing did not
\* fail.
C24_FailureDoesNotStopScan ==
    /\ scan.pc \notin {"idle", "done"} => ENABLED ScanStep
    /\ scan.pc = "done" =>
          /\ report = scan.suite
          /\ \A p \in Projects :
                (Publishable(p) /\ p \notin scan.failed)
                   => EntriesOf(p, report) # {}

C24_Witness ==
    /\ scan.pc = "done"
    /\ \E p \in scan.failed :
          /\ Publishable(p)
          /\ EntriesOf(p, report) = {}
          /\ \A q \in Projects \ {p} : EntriesOf(q, report) # {}

\* C25: every publishable project with a readable manifest appears in the
\* delivered report exactly once, with one of the four statuses, also when
\* another handler deletes or rewrites the artifact between the scan's two
\* stats of it.
C25_EveryProjectClassified ==
    scan.pc = "done" =>
       \A p \in Projects :
          Publishable(p) => Cardinality(EntriesOf(p, report)) = 1

\* The name and status of every entry of a report.
Statuses(suite) ==
    [k \in 1..Len(suite) |->
        [name |-> suite[k].name, status |-> suite[k].status]]

\* A delivered scan during which no other handler changed an artifact.
CleanScans == {k \in 1..Len(scanLog) : scanLog[k].done /\ scanLog[k].clean}

\* C26: two scans that ran over the same filesystem and installed state
\* report the same status for every project, whatever scans ran before
\* them.
C26_StatusFunctionOfState ==
    \A i \in CleanScans, j \in CleanScans :
       scanLog[i].env = scanLog[j].env
          => Statuses(scanLog[i].suite) = Statuses(scanLog[j].suite)

C26_Witness ==
    /\ Len(scanLog) = 3
    /\ scanLog[1].done /\ ~scanLog[1].clean
    /\ CleanScans = {2, 3}
    /\ scanLog[2].env = scanLog[3].env
    /\ scanLog[1].env # scanLog[2].env
    /\ Len(scanLog[3].suite) = 3
    /\ Statuses(scanLog[1].suite) # Statuses(scanLog[2].suite)
    /\ Statuses(scanLog[2].suite) = Statuses(scanLog[3].suite)

(***************************************************************************)
(* Properties of the artifact path                                         *)
(***************************************************************************)

SameNameVersion(d1, d2) == d1.name = d2.name /\ d1.version = d2.version

\* C27 as stated: the artifact path is a function of (name, version) alone:
\* two descriptors with equal name and version resolve to the same path,
\* and the scan and the bulk build derive the same path for a descriptor.
C27_PathOfNameVersion ==
    art.pc = "done" =>
       /\ SameNameVersion(art.d1, art.d2) => art.scan1 = art.scan2
       /\ art.scan1 = art.build1
       /\ art.scan2 = art.build2

\* C27 amended: the artifact path is the project's folder joined with a
\* file name that is a function of (name, version); two descriptors with
\* equal name and version resolve to the same file name, and to the same
\* path exactly when they are in the same folder; the scan and the bulk
\* build derive the same path for a descriptor.
C27_PathOfFolderNameVersion ==
    art.pc = "done" =>
       /\ art.scan1.dir = art.d1.path
       /\ SameNameVersion(art.d1, art.d2) =>
             /\ art.scan1.file = art.scan2.file
             /\ art.scan1 = art.scan2 <=> art.d1.path = art.d2.path
       /\ art.scan1 = art.build1
       /\ art.scan2 = art.build2

C27_Witness ==
    /\ art.pc = "done"
    /\ SameNameVersion(art.d1, art.d2)
    /\ art.d1.name = <<"A", "b">>
    /\ art.d1.path # art.d2.path
    /\ art.scan1 # art.scan2
    /\ art.scan1.file = art.scan2.file
    /\ art.scan1 = art.build1

(***************************************************************************)
(* Properties of the runs under the message dispatcher                     *)
(***************************************************************************)

\* The number of planned projects whose processing has finished.
BuildFinished ==
    IF build.pc \in {"statVsix", "statSrc", "compile", "package"}
    THEN build.i - 1
    ELSE Len(build.plan)

\* The project was skipped as up to date, or built and packaged.
BuildSucceededFor(p) ==
    \/ \E c \in Checks : c.name = p /\ ~c.needsBuild
    \/ Return("package", p, TRUE) \in Returns

\* A collaborator call for the project threw.
BuildFailedFor(p) == \E r \in Returns : r.name = p /\ ~r.ok

\* How often the project is named in failedProjects.
TimesFailed(p) ==
    Cardinality({j \in 1..Len(build.failedProjects) :
                    build.failedProjects[j] = p})

\* The number of list positions whose install has finished.
InstallFinished ==
    IF install.pc = "installing" THEN install.i - 1 ELSE Len(install.paths)

\* C28: at every await of a bulk build or bulk install the partial results
\* are consistent: the succeeded count plus the recorded failures is the
\* number of finished items, every finished item is counted exactly once,
\* as succeeded or as failed according to what its calls returned, and no
\* unfinished item is counted.
C28_PartialResults ==
    /\ build.successCount + Len(build.failedProjects) = BuildFinished
    /\ build.successCount =
          Cardinality({k \in 1..BuildFinished :
                          BuildSucceededFor(build.plan[k])})
    /\ \A k \in 1..Len(build.plan) :
          LET p == build.plan[k] IN
          IF k <= BuildFinished
          THEN /\ BuildSucceededFor(p) # BuildFailedFor(p)
               /\ TimesFailed(p) = IF BuildFailedFor(p) THEN 1 ELSE 0
          ELSE ~BuildSucceededFor(p) /\ TimesFailed(p) = 0
    /\ install.installedCount + Len(install.errors) = InstallFinished
    /\ Len(install.returns) = InstallFinished
    /\ install.installedCount = Len(SelectSeq(install.returns, IsOk))
    /\ install.errors = RejectedPaths(install.returns)
    /\ \A k \in 1..InstallFinished :
          install.returns[k].path = install.input[k]

C28_Witness ==
    /\ build.pc = "package"
    /\ build.i = 2
    /\ build.successCount = 1
    /\ install.pc = "installing"
    /\ install.i = 2
    /\ Len(install.errors) = 1
    /\ pack.pc = "packaging"

\* C29: every bulk build and every bulk install that starts eventually
\* completes and emits its final report.
C29_RunsComplete ==
    /\ [](build.pc # "idle"
            => <>(build.pc = "done" /\ build.message # "none"))
    /\ [](install.pc # "idle"
            => <>(install.pc = "done" /\ install.message = "complete"))

C29_Witness ==
    /\ build.pc = "done"
    /\ Len(build.plan) = 2
    /\ build.message = "partial"
    /\ install.pc = "done"
    /\ Len(install.input) = 2
    /\ install.installedCount = 1
    /\ install.message = "complete"

\* The collaborator invocations (compile, package, install) not yet
\* returned.
InFlight ==
    (IF build.pc \in {"compile", "package"} THEN 1 ELSE 0)
    + (IF install.pc = "installing" THEN 1 ELSE 0)
    + (IF pack.pc = "packaging" THEN 1 ELSE 0)

\* C30: the message dispatcher serializes the runs: at most one build,
\* package or install collaborator invocation is in flight at any time.
C30_Serialized == InFlight <= 1

(***************************************************************************)
(* Properties of the build and package steps of a bulk build               *)
(***************************************************************************)

\* C31: package is called for a project only right after that project's
\* compile returned successfully; a project whose compile or package threw
\* is recorded as failed, is not packaged after a failed compile, and is
\* not counted as succeeded.
C31_PackageAfterCompile ==
    /\ \A k \in 1..Len(build.calls) :
          build.calls[k][1] = "package" =>
             /\ k > 1
             /\ build.calls[k - 1] = <<"compile", build.calls[k][2]>>
             /\ build.returns[k - 1]
                   = Return("compile", build.calls[k][2], TRUE)
    /\ \A r \in Returns :
          ~r.ok =>
             /\ r.name \in FailedNames
             /\ r.kind = "compile" => <<"package", r.name>> \notin Calls
             /\ Return("package", r.name, TRUE) \notin Returns
    /\ build.successCount
          = NumSkipped
            + Cardinality({r \in Returns : r.kind = "package" /\ r.ok})

C31_Witness ==
    /\ BuildCompleted
    /\ Len(build.plan) = 3
    /\ build.returns = <<Return("compile", build.plan[1], FALSE),
                         Return("compile", build.plan[2], TRUE),
                         Return("package", build.plan[2], FALSE),
                         Return("compile", build.plan[3], TRUE),
                         Return("package", build.plan[3], TRUE)>>
    /\ build.failedProjects = <<build.plan[1], build.plan[2]>>
    /\ build.successCount = 1

\* C32: a bulk build run after an earlier one, with no source or manifest
\* modified in between, calls neither compile nor package for a project
\* that succeeded in the earlier run.
C32_SecondRunBuildsNothing ==
    \A c \in Calls : c[2] \notin build.earlier

\* The planned projects, all of which have a compile script.
PlannedProjects == {build.plan[k] : k \in 1..Len(build.plan)}

\* C33: in the scan called at the end of a bulk build in which no project
\* failed, no project with a compile script is classified 'stale'.
C33_NoStaleAfterBuild ==
    (scan.pc = "done" /\ BuildCompleted /\ build.failedProjects = << >>)
    => \A k \in 1..Len(report) :
          report[k].name \in PlannedProjects => report[k].status # "stale"

C33_Witness ==
    /\ scan.pc = "done"
    /\ BuildCompleted
    /\ build.failedProjects = << >>
    /\ Len(build.plan) = 3
    /\ NumSkipped = 1
    /\ Len(build.returns) = 4
    /\ Len(report) = 3
    /\ \E c \in Checks : c.needsBuild /\ ~c.stats.exists
    /\ \E c \in Checks : c.needsBuild /\ c.stats.exists /\ ~c.srcStats.exists

(***************************************************************************)
(* Specification of overlapping scans: getSuiteStatus messages and a       *)
(* deleteVsix at any time                                                  *)
(***************************************************************************)

InitOverlap ==
    /\ manifest = [p \in Projects |->
                      IF p = Inventory[1]
                      THEN Manifest(TRUE, FALSE, V(1, 2, 0))
                      ELSE Manifest(FALSE, FALSE, V(1, 2, 0))]
    /\ \E a \in {Missing, File(TOLERANCE)} :
          vsix = [p \in Projects |-> IF p = Inventory[1] THEN a ELSE Missing]
    /\ src = [p \in Projects |-> File(0)]
    /\ installed = [p \in Projects |->
                       IF p = Inventory[1]
                       THEN Installed(V(1, 2, 0), File(0))
                       ELSE NotInstalled]
    /\ fsEvents = 0
    /\ scan = IdleScan
    /\ report = << >>
    /\ build = IdleBuild
    /\ install = IdleInstall
    /\ cmp = IdleCmp
    /\ scanLog = << >>
    /\ pack = IdlePack
    /\ suspended = {}
    /\ publish = IdlePub
    /\ del = IdleDel
    /\ art = IdleArt

NextOverlap ==
    \/ GetSuiteStatus
    \/ deleteVsix(Inventory[1])
    \/ DeleteAnswer
    \/ ScanStep
    \/ Resume

SpecOverlap == InitOverlap /\ [][NextOverlap]_vars

\* C35: reports are posted in the order their scans were called: of two
\* delivered scans the one called later was delivered later, so the report
\* shown last is never that of an older scan.
C35_ReportsInStartOrder ==
    \A i \in 1..Len(scanLog), j \in 1..Len(scanLog) :
       (i < j /\ scanLog[i].done /\ scanLog[j].done)
       => scanLog[i].seq < scanLog[j].seq

(***************************************************************************)
(* Specification of the operations that change artifacts or installed      *)
(* extensions, each followed by the steps of the scan it calls             *)
(***************************************************************************)

\* Operations started in one behaviour.
MaxOps == 2

\* The messages that start an operation, all about the first project of
\* the inventory.
OperationMessages ==
    {[type |-> "compileSuite"]}
    \cup {[type |-> "package", projectPath |-> path] :
             path \in {"", Inventory[1]}}
    \cup {[type |-> "installSuite", vsixPaths |-> l] :
             l \in {<< >>, <<Inventory[1]>>}}
    \cup {[type |-> "publish", value |-> type, projectPath |-> Inventory[1]] :
             type \in PublishTypes}
    \cup {[type |-> "publish", value |-> "patch", projectPath |-> path] :
             path \in {"", NoProject}}
    \cup {[type |-> "deleteVsix", vsixPath |-> Inventory[1]]}

\* onDidReceiveMessage: the switch on data.type, with publish and
\* deleteVsix.
ReceiveOperation(data) ==
    \/ Receive(data)
    \/ data.type = "publish" /\ runPublish(data.value, data.projectPath)
    \/ data.type = "deleteVsix" /\ deleteVsix(data.vsixPath)

\* The handlers called so far.
Started ==
    Cardinality({h \in {build, install, pack, publish, del} :
                    h.pc # "idle"})

\* The first project names a publisher, has a compile script or not and
\* an artifact or not; its src folder holds the newest file of the
\* workspace. The other manifests name no publisher.
InitOperations ==
    /\ \E c \in BOOLEAN, a \in {Missing, File(TOLERANCE)} :
          /\ manifest = [p \in Projects |->
                           IF p = Inventory[1]
                           THEN Manifest(TRUE, c, V(1, 2, 0))
                           ELSE Manifest(FALSE, FALSE, V(1, 2, 0))]
          /\ vsix = [p \in Projects |->
                       IF p = Inventory[1] THEN a ELSE Missing]
    /\ src = [p \in Projects |->
                IF p = Inventory[1]
                THEN File(TOLERANCE + MaxSkew) ELSE Missing]
    /\ installed = [p \in Projects |-> NotInstalled]
    /\ fsEvents = 0
    /\ scan = IdleScan
    /\ report = << >>
    /\ build = IdleBuild
    /\ install = IdleInstall
    /\ cmp = IdleCmp
    /\ scanLog = << >>
    /\ pack = IdlePack
    /\ suspended = {}
    /\ publish = IdlePub
    /\ del = IdleDel
    /\ art = IdleArt

NextOperations ==
    \/ Started < MaxOps /\ \E data \in OperationMessages :
                              ReceiveOperation(data)
    \/ BuildStep
    \/ InstallStep
    \/ RunPackageReturn
    \/ RunPublishReturn
    \/ DeleteAnswer
    \/ ScanStep
    \/ Resume

\* Every promise a scan awaits settles and the event loop then resumes the
\* scan: a step of a scan in progress is eventually taken.
SpecOperationsFair ==
    /\ InitOperations
    /\ [][NextOperations]_vars
    /\ WF_vars(ScanStep)
    /\ WF_vars(Resume)

(***************************************************************************)
(* Properties of the scan that follows an operation                        *)
(***************************************************************************)

\* This step calls scanForSuite() over the state the step leaves.
CallsScan ==
    /\ Len(scanLog') = Len(scanLog) + 1
    /\ scanLog'[Len(scanLog')].env
         = [manifest |-> manifest', vsix |-> vsix', src |-> src',
            installed |-> installed']
    /\ ~scanLog'[Len(scanLog')].done

\* This step ends a bulk build (any plan), a bulk install, a successful
\* package or publish, or a confirmed delete.
OperationEnds ==
    \/ build.pc # "done" /\ build'.pc = "done"
    \/ install.pc # "done" /\ install'.pc = "done"
    \/ pack.pc # "done" /\ pack'.pc = "done" /\ pack'.message = "packaged"
    \/ /\ publish.pc # "done" /\ publish'.pc = "done"
       /\ publish'.message = "published"
    \/ /\ del.pc # "done" /\ del'.pc = "done"
       /\ del'.message \in {"deleted", "absent", "error"}

\* The same without the endings that changed nothing: a bulk build with
\* an empty plan and a confirmed delete of an artifact that is already
\* gone or that unlinkSync could not remove.
ChangingOperationEnds ==
    /\ OperationEnds
    /\ ~(build.pc # "done" /\ build'.pc = "done"
          /\ build'.message = "nothing")
    /\ ~(del.pc # "done" /\ del'.pc = "done"
          /\ del'.message \in {"absent", "error"})

\* C34 as claimed: the step that ends a bulk build (also with an empty
\* plan), a bulk install, a successful package or publish, or a confirmed
\* delete calls a fresh scan.
C34_EveryOperationScans == [][OperationEnds => CallsScan]_vars

\* C34 as amended: the step that ends a bulk build with a non-empty plan,
\* a bulk install, a successful package or publish, or a confirmed delete
\* that removed the artifact calls a scan over the state it leaves, a bulk
\* build with an empty plan and a confirmed delete that removed nothing
\* call none, and every scan called eventually posts its report.
C34_ChangingOperationScans ==
    /\ [][ChangingOperationEnds => CallsScan]_vars
    /\ [][(OperationEnds /\ ~ChangingOperationEnds)
            => UNCHANGED <<scan, scanLog, report>>]_vars
    /\ \A k \in 1..MaxOps :
          (Len(scanLog) >= k) ~> (Len(scanLog) >= k /\ scanLog[k].done)

C34_Witness ==
    /\ build.pc = "done"
    /\ build.message = "complete"
    /\ del.message = "deleted"
    /\ Len(scanLog) = 2
    /\ scanLog[1].done
    /\ scanLog[2].done
    /\ scanLog[2].seq = 1

(***************************************************************************)
(* Properties of the preselection                                          *)
(***************************************************************************)

\* C36: every entry of a report that is preselected for installation (its
\* status is not 'installed') had an artifact when the scan ran, and the
\* list 'Sync Selected' passes to the bulk install names only artifacts
\* that exist.
C36_PreselectedExist ==
    /\ \A k \in 1..Len(report) :
          Checked(report[k]) => report[k].vsixExists
    /\ \A k \in 1..Len(install.input) : vsix[install.input[k]].exists

====
